---- MODULE Spec2Model ----
(***************************************************************************)
(* Process supervision and configuration reconciliation of the MCP helper  *)
(* servers: the persisted config document (~/.cursor/mcp.json), the        *)
(* scripts that rewrite it, the process table the scripts grep and kill,   *)
(* and the start scripts.                                                   *)
(*                                                                         *)
(* The specifications share the variables:                                 *)
(*   SpecCfg    the config store: Init draws a persisted document, the     *)
(*              actions are the config handlers of the scripts;            *)
(*   SpecSup    the supervisor: Init draws a process table, the actions    *)
(*              are the steps of the start scripts;                        *)
(*   SpecForce  the two scripts that kill before they start;               *)
(*   SpecStop   start-all-mcp and stop-all-mcp over the manifest and the   *)
(*              log directory;                                             *)
(*   SpecCred   the credential scripts over the token sources;             *)
(*   SpecTest   the health test script and its TCP probes;                 *)
(*   SpecAgent  the AI Automation Agent over a git repository;             *)
(*   SpecWrite  a write of the config file and the readers beside it.      *)
(***************************************************************************)
EXTENDS Integers, Sequences, FiniteSets, TLC

VARIABLES
    cfgKind,    \* ~/.cursor/mcp.json: "missing", "corrupt" (not JSON), "json", or
                \* "partial" (cut off inside a write)
    cfgDoc,     \* the parsed document when cfgKind = "json"
    envGT,      \* process.env.GITHUB_TOKEN ("" when unset)
    envPAT,     \* process.env.GITHUB_PERSONAL_ACCESS_TOKEN ("" when unset)
    dotEnv,     \* ./.env: the values of its GITHUB_TOKEN= and
                \* GITHUB_PERSONAL_ACCESS_TOKEN= lines ("" when there is none)
    profile,    \* tokens of the `export GITHUB_TOKEN='..'` lines of the shell profile
    profileMode, \* "ok", or "unreadable": the profile exists and reading it fails
    cfgHist,    \* history: one record per config handler that ran
    procs,      \* OS process table: set of [pid, srv, cmd]
    nextPid,    \* next process id the OS hands out
    broken,     \* servers whose start command throws in this environment
    pidFile,    \* mcp-pids.json: "missing" or the array of {name, pid}
    logFiles,   \* mcp-logs: whether the directory exists, and the content of
                \* each of its files ("" when empty)
    backups,    \* the mcp-logs-backup-<timestamp> directories, oldest first
    net,        \* the ports of 127.0.0.1 and the socket, timer and promise
                \* of the TCP probe in flight
    repo,       \* the git repository of the working directory
    writing,    \* the config document of a writeFileSync in progress
    pc,         \* position of the running script ("idle" between invocations)
    idx,        \* loop index of the running script
    run,        \* record of the running invocation
    hist        \* history: one record per finished invocation

cfgVars == <<cfgKind, cfgDoc, envGT, envPAT, dotEnv, profile, profileMode, cfgHist>>
supVars == <<procs, nextPid, broken, pidFile, logFiles, backups, net, repo, writing,
            pc, idx, run, hist>>
vars == <<cfgKind, cfgDoc, envGT, envPAT, dotEnv, profile, profileMode, cfgHist,
          procs, nextPid, broken, pidFile, logFiles, backups, net, repo, writing,
          pc, idx, run, hist>>

----------------------------------------------------------------------------
(* Bounds *)

MaxCfgRuns == 2     \* config handlers run in one behaviour of SpecCfg
MaxRuns == 2        \* script invocations in one behaviour of SpecSup
MaxPre == 2         \* processes alive before the first invocation
MaxBroken == 1      \* start commands that fail in the environment
MaxOrphans == 2     \* processes alive before the first invocation of SpecStop

----------------------------------------------------------------------------
(* JSON values.  An object is a function from its keys; `args` is a         *)
(* sequence, `env` an object, every other value of an entry a string.       *)

EmptyMap == [k \in {} |-> ""]

Without(f, k) == [x \in (DOMAIN f) \ {k} |-> f[x]]

Put(f, k, v) == [x \in (DOMAIN f) \cup {k} |-> IF x = k THEN v ELSE f[x]]

\* { mcpServers: {} }
EmptyDoc == [other |-> EmptyMap, hasServers |-> TRUE, servers |-> EmptyMap]

DefaultNames ==
    {"filesystem", "puppeteer", "github", "webresearch", "fetch", "sequentialthinking"}

SuppliedFields == {"command", "args", "env", "type"}

Placeholder == "${process.env.GITHUB_TOKEN}"

PuppeteerEnv ==
    [k \in {"PUPPETEER_LAUNCH_OPTIONS", "ALLOW_DANGEROUS"} |->
        IF k = "ALLOW_DANGEROUS" THEN "true" ELSE "headless,no-sandbox"]

PuppeteerEnvOptimized ==
    [k \in {"PUPPETEER_LAUNCH_OPTIONS", "ALLOW_DANGEROUS"} |->
        IF k = "ALLOW_DANGEROUS" THEN "true" ELSE "headless,no-sandbox,timeout"]

ServerKey(n) == IF n = "fetch" THEN "928gi2m8xwtay9" ELSE "76e32um8xwucnc"

PackageOf(n) ==
    CASE n = "filesystem" -> "@modelcontextprotocol/server-filesystem"
      [] n = "puppeteer" -> "@modelcontextprotocol/server-puppeteer"
      [] n = "github" -> "@modelcontextprotocol/server-github"
      [] n = "webresearch" -> "@mzxrai/mcp-webresearch"
      [] OTHER -> "mcprouter"

\* A generated server definition: fsArg is the third argument of the
\* filesystem server, penv the env of the puppeteer server.
GeneratedEntry(n, fsArg, penv) ==
    LET flds == IF n \in {"puppeteer", "fetch", "sequentialthinking"}
                THEN {"command", "args", "env", "type"}
                ELSE {"command", "args", "type"}
    IN [k \in flds |->
          CASE k = "command" -> "npx"
            [] k = "args" -> IF n = "filesystem"
                             THEN <<"-y", PackageOf(n), fsArg>>
                             ELSE <<"-y", PackageOf(n)>>
            [] k = "env" -> IF n = "puppeteer" THEN penv
                            ELSE [e \in {"SERVER_KEY"} |-> ServerKey(n)]
            [] OTHER -> "stdio"]

\* { command, args, env: { GITHUB_TOKEN: token }, type } of the token setups
GithubEntryWithToken(token) ==
    [k \in {"command", "args", "env", "type"} |->
        CASE k = "command" -> "npx"
          [] k = "args" -> <<"-y", PackageOf("github")>>
          [] k = "env" -> [e \in {"GITHUB_TOKEN"} |-> token]
          [] OTHER -> "stdio"]

----------------------------------------------------------------------------
(* Config Store: load *)

\* LoadConfig with a catch block that swallows the parse error silently
LoadConfig_Silent(kind, doc) ==
    IF kind = "json"
    THEN [doc |-> IF doc.hasServers THEN doc
                  ELSE [doc EXCEPT !.hasServers = TRUE, !.servers = EmptyMap],
          warned |-> FALSE]
    ELSE [doc |-> EmptyDoc, warned |-> FALSE]

\* let mcpConfig = { mcpServers: {} }; if the file exists, JSON.parse it and
\* add an empty mcpServers when it has none; a parse error is caught and
\* warned about, leaving the default.
LoadConfig(kind, doc) ==
    IF kind = "json"
    THEN [doc |-> IF doc.hasServers THEN doc
                  ELSE [doc EXCEPT !.hasServers = TRUE, !.servers = EmptyMap],
          warned |-> FALSE]
    ELSE [doc |-> EmptyDoc, warned |-> (kind \in {"corrupt", "partial"})]

----------------------------------------------------------------------------
(* Config Store: the merges of the scripts *)

\* InitMergeServers as a deep merge that concatenates the args arrays
InitMergeServers_ConcatArgs(existing, ws) ==
    [n \in DefaultNames \cup DOMAIN existing |->
        IF n \notin DOMAIN existing THEN GeneratedEntry(n, ws, PuppeteerEnv)
        ELSE IF n \in DefaultNames /\ "args" \in DOMAIN existing[n]
        THEN [existing[n] EXCEPT !["args"] = @ \o GeneratedEntry(n, ws, PuppeteerEnv)["args"]]
        ELSE existing[n]]

\* InitMergeServers without the spread of the persisted entries
InitMergeServers_Replace(existing, ws) ==
    [n \in DefaultNames |->
        IF n \in DOMAIN existing THEN existing[n]
        ELSE GeneratedEntry(n, ws, PuppeteerEnv)]

\* InitMergeServers with the spread first: the generated definitions win
InitMergeServers_DefaultsWin(existing, ws) ==
    [n \in DefaultNames \cup DOMAIN existing |->
        IF n \in DefaultNames THEN GeneratedEntry(n, ws, PuppeteerEnv)
        ELSE existing[n]]

\* cursor-mcp-init: { ...six generated definitions, ...mcpConfig.mcpServers }
InitMergeServers(existing, ws) ==
    [n \in DefaultNames \cup DOMAIN existing |->
        IF n \in DOMAIN existing THEN existing[n]
        ELSE GeneratedEntry(n, ws, PuppeteerEnv)]

\* cursor-mcp-init: load, merge, delete htmltomarkdown; the document written
InitConfigDoc(kind, doc, ws) ==
    LET loaded == LoadConfig(kind, doc).doc
        merged == InitMergeServers(loaded.servers, ws)
    IN [loaded EXCEPT !.servers =
            IF "htmltomarkdown" \in DOMAIN merged
            THEN Without(merged, "htmltomarkdown") ELSE merged]

\* installer: mcpConfig.mcpServers[key] = config for each generated definition
SetupMergeServers(existing, ws) ==
    [n \in DefaultNames \cup DOMAIN existing |->
        IF n \in DefaultNames THEN GeneratedEntry(n, ws, PuppeteerEnv)
        ELSE existing[n]]

SetupConfigDoc(kind, doc, ws) ==
    LET loaded == LoadConfig(kind, doc).doc
    IN [loaded EXCEPT !.servers = SetupMergeServers(loaded.servers, ws)]

\* start-filesystem-mcp: assigns the filesystem and puppeteer entries
StartFsConfigDoc(kind, doc, ws) ==
    LET loaded == LoadConfig(kind, doc).doc
        s1 == Put(loaded.servers, "filesystem",
                  GeneratedEntry("filesystem", ws, PuppeteerEnv))
        s2 == Put(s1, "puppeteer", GeneratedEntry("puppeteer", ws, PuppeteerEnv))
    IN [loaded EXCEPT !.servers = s2]

----------------------------------------------------------------------------
(* Credential lookup used by the config handlers *)

\* mcpConfig.mcpServers && .github && .github.env && .github.env.GITHUB_TOKEN
ConfigToken(kind, doc) ==
    IF /\ kind = "json"
       /\ doc.hasServers
       /\ "github" \in DOMAIN doc.servers
       /\ "env" \in DOMAIN doc.servers["github"]
       /\ "GITHUB_TOKEN" \in DOMAIN doc.servers["github"]["env"]
    THEN doc.servers["github"]["env"]["GITHUB_TOKEN"]
    ELSE ""

\* content.match(/export GITHUB_TOKEN=['"]([^'"]+)['"]/): the first export line
ProfileToken(prof) == IF Len(prof) > 0 THEN prof[1] ELSE ""

\* environment variable, then config document, then shell profile; "" is null
getExistingGitHubToken(env, kind, doc, prof) ==
    IF env # "" THEN env
    ELSE IF ConfigToken(kind, doc) # "" THEN ConfigToken(kind, doc)
    ELSE ProfileToken(prof)

----------------------------------------------------------------------------
(* Config Store: the writers that do not merge generated definitions *)

Glob(ws) == IF ws = "wsA" THEN "wsA/**/*" ELSE "wsB/**/*"

\* generateOptimizedConfig: a fresh document with six definitions; the github
\* entry carries the token found, or a literal placeholder string
generateOptimizedConfig(env, kind, doc, prof, ws) ==
    LET githubToken == getExistingGitHubToken(env, kind, doc, prof)
        githubConfig == GithubEntryWithToken(
                            IF githubToken # "" THEN githubToken ELSE Placeholder)
    IN [other |-> EmptyMap,
        hasServers |-> TRUE,
        servers |-> [n \in DefaultNames |->
                        IF n = "github" THEN githubConfig
                        ELSE GeneratedEntry(n, Glob(ws), PuppeteerEnvOptimized)]]

\* "Update GitHub configuration" of the token setups: set env.GITHUB_TOKEN of
\* an existing github entry, or insert a complete entry
SetGithubToken(servers, token) ==
    IF "github" \in DOMAIN servers
    THEN LET g == servers["github"]
             env == IF "env" \in DOMAIN g THEN g["env"] ELSE EmptyMap
         IN Put(servers, "github", Put(g, "env", Put(env, "GITHUB_TOKEN", token)))
    ELSE Put(servers, "github", GithubEntryWithToken(token))

\* setupGitHubToken, step 1: the document written
TokenSetupDoc(kind, doc, token) ==
    LET loaded == LoadConfig(kind, doc).doc
    IN [loaded EXCEPT !.servers = SetGithubToken(loaded.servers, token)]

\* setupGitHubToken, step 2: append the export line unless one is there
TokenSetupProfile(prof, token) ==
    IF Len(prof) = 0 THEN Append(prof, token) ELSE prof

\* saveWorkspaceConfig, step 4: the guard for rewriting args[2]
WorkspaceApplies(kind, doc) ==
    /\ kind = "json"
    /\ doc.hasServers
    /\ "filesystem" \in DOMAIN doc.servers
    /\ "args" \in DOMAIN doc.servers["filesystem"]
    /\ Len(doc.servers["filesystem"]["args"]) > 2

WorkspaceConfigDoc(doc, ws) ==
    [doc EXCEPT !.servers["filesystem"]["args"][3] = ws]

----------------------------------------------------------------------------
(* SpecCfg: the config store under the scripts' config handlers *)

Workspaces == {"wsA", "wsB"}

HomeWork == "home/Desktop/Work/*"

\* entries a persisted document may hold under a name
UserEntries(n) ==
    CASE n = "github" ->
            { GeneratedEntry("github", "wsA", PuppeteerEnv),
              Put(GithubEntryWithToken("tokC"), "note", "mine") }
      [] n = "filesystem" ->
            { [k \in {"command", "args", "type", "autoApprove"} |->
                 CASE k = "command" -> "node"
                   [] k = "args" -> <<"-y", PackageOf("filesystem"), "wsOld">>
                   [] k = "type" -> "stdio"
                   [] OTHER -> "read"] }
      [] n = "htmltomarkdown" ->
            { [k \in {"command", "args"} |->
                 IF k = "command" THEN "node" ELSE <<"html-to-markdown.js">>] }
      [] OTHER ->
            { [k \in {"command", "args", "timeout"} |->
                 CASE k = "command" -> "python"
                   [] k = "args" -> <<"srv.py">>
                   [] OTHER -> "30"] }

PersistedNames == {"github", "filesystem", "htmltomarkdown", "custom"}

ServerMaps ==
    UNION { [names -> UNION { UserEntries(n) : n \in names }] : names \in SUBSET PersistedNames }

PersistedServerMaps ==
    { m \in ServerMaps : \A n \in DOMAIN m : m[n] \in UserEntries(n) }

TopLevelBags == { EmptyMap, [k \in {"theme"} |-> "dark"] }

PersistedDocs ==
    { [other |-> o, hasServers |-> TRUE, servers |-> m] :
        o \in TopLevelBags, m \in PersistedServerMaps }
    \cup { [other |-> o, hasServers |-> FALSE, servers |-> EmptyMap] : o \in TopLevelBags }

\* the record of an invocation: the script, --force, the live processes per
\* server before it, the servers probed alive, what the start loop did, the
\* array `pids` of start-all-mcp and the exit code; for stop-all-mcp the
\* manifest it read, the outcome per entry, the patterns swept and the
\* pids killed; `interrupted` when the script was killed before its end;
\* `liveAfter` and `manifestLeft` are the servers alive and the presence of
\* mcp-pids.json when the invocation ended; `logsBefore`, `logsAfter`,
\* `backup` and `logsError` are the log directory before and after the log
\* handling of stop-all-mcp, the backup directory it filled, and the loop
\* ("copy" or "clear") in which it threw; `victims` are the processes
\* stop-all-mcp killed, each with the manifest name it was killed under
\* ("" for the sweep); `trace` is, for cursor-startup, the states each
\* server went through
NoRun ==
    [script |-> "none", force |-> FALSE, gate |-> "none", pre |-> EmptyMap,
     alive |-> {}, tokenExists |-> FALSE, attempted |-> {}, started |-> {},
     failed |-> {}, pids |-> <<>>, exit |-> 0,
     prePids |-> {}, hadManifest |-> FALSE, manifest |-> <<>>, stopped |-> {},
     gone |-> {}, swept |-> {}, killed |-> {}, interrupted |-> FALSE,
     liveAfter |-> {}, manifestLeft |-> FALSE,
     logsBefore |-> [exists |-> FALSE, files |-> EmptyMap],
     logsAfter |-> [exists |-> FALSE, files |-> EmptyMap],
     backup |-> EmptyMap, logsError |-> "none", victims |-> {},
     trace |-> EmptyMap]

\* no .env file in the working directory
NoDotEnv == [GT |-> "", PAT |-> ""]

\* no probe in flight; every port closed
NoNet ==
    [ports |-> EmptyMap, port |-> 0, socket |-> "none", timer |-> "none",
     promise |-> "none", calls |-> <<>>]

\* the working directory is not inside a git repository
NoRepo ==
    [inRepo |-> FALSE, hasBranch |-> FALSE, hasRemote |-> FALSE, dirty |-> FALSE,
     staged |-> FALSE, commits |-> 0, pushed |-> 0]

\* no write in progress
NoWrite == [open |-> FALSE, doc |-> EmptyDoc, kindBefore |-> "missing",
            before |-> EmptyDoc]

\* the state of what a specification leaves aside
OthersQuiet ==
    /\ backups = <<>>
    /\ net = NoNet
    /\ repo = NoRepo
    /\ writing = NoWrite

SupQuiet ==
    /\ procs = {}
    /\ nextPid = 1
    /\ broken = {}
    /\ pidFile = [exists |-> FALSE, pids |-> <<>>]
    /\ logFiles = [exists |-> FALSE, files |-> EmptyMap]
    /\ OthersQuiet
    /\ pc = "idle"
    /\ idx = 0
    /\ run = NoRun
    /\ hist = <<>>

InitCfg ==
    /\ cfgKind \in {"missing", "corrupt", "json"}
    /\ cfgDoc \in IF cfgKind = "json" THEN PersistedDocs ELSE {EmptyDoc}
    /\ envGT \in {"", "tokE"}
    /\ envPAT = ""
    /\ dotEnv = NoDotEnv
    /\ profile \in {<<>>, <<"tokP">>}
    /\ profileMode = "ok"
    /\ cfgHist = <<>>
    /\ SupQuiet

\* the record of a config handler: the document before and after, and for
\* the credential scripts the sources before, the token set up, the value
\* resolved, whether resolving threw, whether the user was prompted, whether
\* the user agreed to the profile change, and the environment of the server
\* the script spawned; `consulted` when run-github-mcp looked into ./.env
CfgRecord(script, ws, after, wrote) ==
    [script |-> script, ws |-> ws, kindBefore |-> cfgKind, before |-> cfgDoc,
     after |-> after, warned |-> LoadConfig(cfgKind, cfgDoc).warned, wrote |-> wrote,
     gt |-> envGT, pat |-> envPAT, prof |-> profile, profMode |-> profileMode,
     file |-> dotEnv, token |-> "", resolved |-> "", threw |-> FALSE,
     prompted |-> FALSE, agreed |-> FALSE, spawned |-> FALSE,
     childGT |-> "", childPAT |-> "", exit |-> 0, consulted |-> FALSE]

\* a handler that writes `doc` to the config file
WriteConfig(script, ws, doc) ==
    /\ cfgKind' = "json"
    /\ cfgDoc' = doc
    /\ cfgHist' = Append(cfgHist, CfgRecord(script, ws, doc, TRUE))

\* cursor-mcp-init: "Update the MCP configuration"
InitConfig ==
    /\ Len(cfgHist) < MaxCfgRuns
    /\ \E ws \in Workspaces :
          WriteConfig("init", Glob(ws), InitConfigDoc(cfgKind, cfgDoc, Glob(ws)))
    /\ UNCHANGED <<envGT, envPAT, dotEnv, profile, profileMode>>
    /\ UNCHANGED supVars

\* installer: "Update MCP configuration"
SetupConfig ==
    /\ Len(cfgHist) < MaxCfgRuns
    /\ WriteConfig("setup", HomeWork, SetupConfigDoc(cfgKind, cfgDoc, HomeWork))
    /\ UNCHANGED <<envGT, envPAT, dotEnv, profile, profileMode>>
    /\ UNCHANGED supVars

\* start-filesystem-mcp: "Update MCP config"
StartFsConfig ==
    /\ Len(cfgHist) < MaxCfgRuns
    /\ \E ws \in Workspaces :
          WriteConfig("startfs", ws, StartFsConfigDoc(cfgKind, cfgDoc, ws))
    /\ UNCHANGED <<envGT, envPAT, dotEnv, profile, profileMode>>
    /\ UNCHANGED supVars

\* optimize-mcp-config: generateOptimizedConfig
OptimizeConfig ==
    /\ Len(cfgHist) < MaxCfgRuns
    /\ \E ws \in Workspaces :
          WriteConfig("optimize", Glob(ws),
                      generateOptimizedConfig(envGT, cfgKind, cfgDoc, profile, ws))
    /\ UNCHANGED <<envGT, envPAT, dotEnv, profile, profileMode>>
    /\ UNCHANGED supVars

\* setup-github-token: setupGitHubToken(token); `proceed` is "the token was
\* verified or the user continues anyway", `addToProfile` the second answer
TokenSetup ==
    /\ Len(cfgHist) < MaxCfgRuns
    /\ \E token \in {"tokN"}, proceed \in BOOLEAN, addToProfile \in BOOLEAN :
          IF proceed
          THEN /\ WriteConfig("token", token, TokenSetupDoc(cfgKind, cfgDoc, token))
               /\ profile' = IF addToProfile THEN TokenSetupProfile(profile, token)
                             ELSE profile
          ELSE /\ cfgHist' = Append(cfgHist, CfgRecord("token", token, cfgDoc, FALSE))
               /\ UNCHANGED <<cfgKind, cfgDoc, profile>>
    /\ UNCHANGED <<envGT, envPAT, dotEnv, profileMode>>
    /\ UNCHANGED supVars

\* configure-workspace: saveWorkspaceConfig, step 4
WorkspaceConfig ==
    /\ Len(cfgHist) < MaxCfgRuns
    /\ \E ws \in Workspaces :
          IF WorkspaceApplies(cfgKind, cfgDoc)
          THEN WriteConfig("workspace", ws, WorkspaceConfigDoc(cfgDoc, ws))
          ELSE /\ cfgHist' = Append(cfgHist, CfgRecord("workspace", ws, cfgDoc, FALSE))
               /\ UNCHANGED <<cfgKind, cfgDoc>>
    /\ UNCHANGED <<envGT, envPAT, dotEnv, profile, profileMode>>
    /\ UNCHANGED supVars

NextCfg ==
    \/ InitConfig
    \/ SetupConfig
    \/ StartFsConfig
    \/ OptimizeConfig
    \/ TokenSetup
    \/ WorkspaceConfig

SpecCfg == InitCfg /\ [][NextCfg]_vars

----------------------------------------------------------------------------
(* Properties of the config store (SpecCfg) *)

CfgRuns == { cfgHist[i] : i \in 1..Len(cfgHist) }

\* the definitions a merging script generates, as it passed them to the merge
Incoming(r, n) == GeneratedEntry(n, r.ws, PuppeteerEnv)

\* C4: merging the same generated definitions a second time, right after the
\* first merge was written, leaves the document as the first merge wrote it
\* (cursor-mcp-init and the installer).
C4_MergeIdempotent ==
    \A i \in 1..(Len(cfgHist) - 1) :
        (/\ cfgHist[i].script \in {"init", "setup"}
         /\ cfgHist[i + 1].script = cfgHist[i].script
         /\ cfgHist[i + 1].ws = cfgHist[i].ws)
        => cfgHist[i + 1].after = cfgHist[i].after

\* the merge ran twice on a parsed document that the first merge changed
C4_Witness ==
    /\ Len(cfgHist) = 2
    /\ cfgHist[1].script = "init"
    /\ cfgHist[2].script = "init"
    /\ cfgHist[2].ws = cfgHist[1].ws
    /\ cfgHist[1].kindBefore = "json"
    /\ "custom" \in DOMAIN cfgHist[1].before.servers
    /\ "github" \in DOMAIN cfgHist[1].before.servers
    /\ cfgHist[1].after # cfgHist[1].before

C28_InitKeepsExistingEntries ==
    \A r \in CfgRuns :
        r.script = "init" =>
            /\ \A n \in (DOMAIN r.before.servers) \ {"htmltomarkdown"} :
                  /\ n \in DOMAIN r.after.servers
                  /\ r.after.servers[n] = r.before.servers[n]
            /\ "htmltomarkdown" \notin DOMAIN r.after.servers
            /\ \A n \in DefaultNames \ DOMAIN r.before.servers :
                  /\ n \in DOMAIN r.after.servers
                  /\ r.after.servers[n] = Incoming(r, n)
            /\ DOMAIN r.after.servers
                  = (DefaultNames \cup DOMAIN r.before.servers) \ {"htmltomarkdown"}
            /\ r.wrote
            /\ cfgHist[Len(cfgHist)] = r => (cfgKind = "json" /\ cfgDoc = r.after)

\* a cursor-mcp-init run over a config that had its own filesystem and
\* github entries, htmltomarkdown, and no entry for the other default names
C28_Witness ==
    \E r \in CfgRuns :
        /\ r.script = "init"
        /\ r.kindBefore = "json"
        /\ {"filesystem", "github", "htmltomarkdown"} \subseteq DOMAIN r.before.servers
        /\ r.before.servers["filesystem"] # Incoming(r, "filesystem")
        /\ r.before.servers["github"] # Incoming(r, "github")
        /\ r.after.servers["filesystem"] = r.before.servers["filesystem"]
        /\ "puppeteer" \in DOMAIN r.after.servers

\* C6: a write by init, optimize, token setup or workspace configuration
\* keeps every unknown top-level key, and every per-server key other than
\* command/args/env/type, that the file held before, with its value.
C6_UnknownKeysPreserved ==
    \A r \in CfgRuns :
        (r.script \in {"init", "optimize", "token", "workspace"} /\ r.wrote) =>
            /\ \A k \in DOMAIN r.before.other :
                  /\ k \in DOMAIN r.after.other
                  /\ r.after.other[k] = r.before.other[k]
            /\ \A n \in DOMAIN r.before.servers :
                  \A k \in (DOMAIN r.before.servers[n]) \ SuppliedFields :
                      /\ n \in DOMAIN r.after.servers
                      /\ k \in DOMAIN r.after.servers[n]
                      /\ r.after.servers[n][k] = r.before.servers[n][k]

\* C7: where a generated definition meets a persisted entry of the same name,
\* the entry written has the generated values in the fields the definition
\* supplies and keeps every other key of the persisted entry.
C7_FieldwiseOverwrite ==
    \A r \in CfgRuns :
        r.script \in {"init", "setup"} =>
            \A n \in (DOMAIN r.before.servers) \cap DefaultNames :
                /\ n \in DOMAIN r.after.servers
                /\ \A k \in DOMAIN Incoming(r, n) :
                      /\ k \in DOMAIN r.after.servers[n]
                      /\ r.after.servers[n][k] = Incoming(r, n)[k]
                /\ \A k \in (DOMAIN r.before.servers[n]) \ (DOMAIN Incoming(r, n)) :
                      /\ k \in DOMAIN r.after.servers[n]
                      /\ r.after.servers[n][k] = r.before.servers[n][k]

\* C8: a config file that does not parse is loaded as { mcpServers: {} } with
\* a warning, and the script goes on to merge and write: the document written
\* holds exactly what the script generates (cursor-mcp-init and
\* start-filesystem-mcp).
C8_CorruptFallsBackToEmpty ==
    \A r \in CfgRuns :
        (r.script \in {"init", "startfs"} /\ r.kindBefore = "corrupt") =>
            /\ r.warned
            /\ r.wrote
            /\ r.after.other = EmptyMap
            /\ r.after.hasServers
            /\ DOMAIN r.after.servers =
                  (IF r.script = "init" THEN DefaultNames ELSE {"filesystem", "puppeteer"})
            /\ \A n \in DOMAIN r.after.servers : r.after.servers[n] = Incoming(r, n)

C8_Witness ==
    /\ cfgKind = "json"
    /\ \E r \in CfgRuns :
          /\ r.script = "init"
          /\ r.kindBefore = "corrupt"
          /\ r.warned
          /\ cfgDoc = r.after

----------------------------------------------------------------------------
(* Process table *)

\* the servers in the order of the start lists
ServerList ==
    <<"filesystem", "puppeteer", "github", "webresearch", "fetch", "sequentialthinking">>

\* pattern p occurs inside command-line word w (grep and pkill -f match
\* substrings of the command line)
Occurs(p, w) ==
    \/ p = w
    \/ <<p, w>> \in { <<"server-filesystem", "@modelcontextprotocol/server-filesystem">>,
                      <<"server-puppeteer", "@modelcontextprotocol/server-puppeteer">>,
                      <<"server-github", "@modelcontextprotocol/server-github">>,
                      <<"mcp-webresearch", "@mzxrai/mcp-webresearch">> }

\* a pattern is a sequence of literals joined by `.*`; it matches a command
\* line in which the literals occur in that order
RECURSIVE MatchesFrom(_, _, _)
MatchesFrom(pat, cmd, from) ==
    IF pat = <<>> THEN TRUE
    ELSE \E i \in from..Len(cmd) :
            /\ Occurs(Head(pat), cmd[i])
            /\ MatchesFrom(Tail(pat), cmd, i)

Matches(pat, cmd) == MatchesFrom(pat, cmd, 1)

\* ps aux | grep "<pattern>" | grep -v grep  has output
isMCPServerRunning(pat) == \E p \in procs : Matches(pat, p.cmd)

\* pkill -f "<pattern>" || true
Pkill(table, pat) == { p \in table : ~Matches(pat, p.cmd) }

\* the command line of a start command of cursor-mcp-init / start-all-mcp
StartCmd(n) ==
    IF n = "filesystem" THEN <<"npx", "-y", PackageOf(n), "ws">>
    ELSE <<"npx", "-y", PackageOf(n)>>

\* the command line `npm run mcp-<server>` leaves in the process table: the
\* package.json scripts start the server under a command line that its check
\* pattern identifies
NpmCmd(n) ==
    IF n \in {"fetch", "sequentialthinking"}
    THEN <<"npx", "-y", PackageOf(n), ServerKey(n)>>
    ELSE StartCmd(n)

\* cursor-mcp-init: the `servers` patterns of isAnyMCPServerRunning
InitProbePatterns ==
    { <<"server-filesystem">>, <<"mcp-webresearch">>, <<"server-github">>,
      <<"server-puppeteer">>, <<"mcprouter">>, <<"sequentialthinking">>, <<"fetch">> }

\* isAnyMCPServerRunning with servers.every in place of servers.some
isAnyMCPServerRunning_Every == \A pat \in InitProbePatterns : isMCPServerRunning(pat)

isAnyMCPServerRunning == \E pat \in InitProbePatterns : isMCPServerRunning(pat)

\* the patterns of isAnyMCPServerRunning that stand for server n
InitPatternsOf(n) ==
    CASE n = "filesystem" -> { <<"server-filesystem">> }
      [] n = "puppeteer" -> { <<"server-puppeteer">> }
      [] n = "github" -> { <<"server-github">> }
      [] n = "webresearch" -> { <<"mcp-webresearch">> }
      [] n = "fetch" -> { <<"mcprouter">>, <<"fetch">> }
      [] OTHER -> { <<"mcprouter">>, <<"sequentialthinking">> }

\* killExistingMCPServers without the pkill of mcprouter
killExistingMCPServers_NoRouter(table) ==
    Pkill(Pkill(Pkill(Pkill(table,
        <<"server-filesystem">>), <<"mcp-webresearch">>), <<"server-github">>),
        <<"server-puppeteer">>)

\* cursor-mcp-init: killExistingMCPServers, five pkill commands in a row
killExistingMCPServers(table) ==
    Pkill(Pkill(Pkill(Pkill(Pkill(table,
        <<"server-filesystem">>), <<"mcp-webresearch">>), <<"server-github">>),
        <<"server-puppeteer">>), <<"mcprouter">>)

\* cursor-startup: the `check` pattern of each entry of `servers`
CheckPattern(n) ==
    CASE n = "filesystem" -> <<"server-filesystem">>
      [] n = "puppeteer" -> <<"server-puppeteer">>
      [] n = "github" -> <<"server-github">>
      [] n = "webresearch" -> <<"mcp-webresearch">>
      [] n = "fetch" -> <<"mcprouter", "928gi2m8xwtay9">>
      [] OTHER -> <<"mcprouter", "76e32um8xwucnc">>

\* start-all-mcp: the `name` of each entry of `servers`
DisplayName(n) ==
    CASE n = "filesystem" -> "Filesystem"
      [] n = "puppeteer" -> "Puppeteer"
      [] n = "github" -> "GitHub"
      [] n = "webresearch" -> "WebResearch"
      [] n = "fetch" -> "Fetch"
      [] OTHER -> "Sequential"

AllServers == { ServerList[i] : i \in 1..Len(ServerList) }

LiveCount(table, n) == Cardinality({ p \in table : p.srv = n })

----------------------------------------------------------------------------
(* SpecSup: the start scripts over the process table *)

\* processes that may be alive before the first invocation: servers started
\* by cursor-mcp-init or start-all-mcp, the two mcprouter servers started by
\* npm run, and an unrelated process whose command line holds "fetch"
Templates ==
    [i \in 1..6 |-> [srv |-> ServerList[i], cmd |-> StartCmd(ServerList[i])]]
    \o << [srv |-> "fetch", cmd |-> NpmCmd("fetch")],
          [srv |-> "sequentialthinking", cmd |-> NpmCmd("sequentialthinking")],
          [srv |-> "none", cmd |-> <<"git", "fetch">>] >>

PreTables ==
    { f \in UNION { [1..k -> 1..Len(Templates)] : k \in 0..MaxPre } :
        \A i \in 1..(Len(f) - 1) : f[i] <= f[i + 1] }

SupDoc ==
    [other |-> [k \in {"theme"} |-> "dark"],
     hasServers |-> TRUE,
     servers |-> [n \in {"custom"} |->
                    [k \in {"command", "args", "timeout"} |->
                        CASE k = "command" -> "python"
                          [] k = "args" -> <<"srv.py">>
                          [] OTHER -> "30"]]]

InitSup ==
    /\ cfgKind \in {"missing", "json"}
    /\ cfgDoc = IF cfgKind = "json" THEN SupDoc ELSE EmptyDoc
    /\ envGT \in {"", "tokE"}
    /\ envPAT = ""
    /\ dotEnv = NoDotEnv
    /\ profile = <<>>
    /\ profileMode = "ok"
    /\ cfgHist = <<>>
    /\ \E f \in PreTables :
          /\ procs = { [pid |-> i, srv |-> Templates[f[i]].srv, cmd |-> Templates[f[i]].cmd] :
                          i \in 1..Len(f) }
          /\ nextPid = Len(f) + 1
    /\ broken \in { b \in SUBSET AllServers : Cardinality(b) <= MaxBroken }
    /\ pidFile = [exists |-> FALSE, pids |-> <<>>]
    /\ logFiles = [exists |-> FALSE, files |-> EmptyMap]
    /\ OthersQuiet
    /\ pc = "idle"
    /\ idx = 0
    /\ run = NoRun
    /\ hist = <<>>

Begin(script, force, alive) ==
    [NoRun EXCEPT !.script = script, !.force = force, !.alive = alive,
                  !.pre = [n \in AllServers |-> LiveCount(procs, n)],
                  !.prePids = { p.pid : p \in procs }]

\* the script exits: the invocation is over
Finish(r) ==
    /\ hist' = Append(hist, r)
    /\ run' = NoRun
    /\ pc' = "idle"
    /\ idx' = 0

\* LoopNext with the try/catch around the loop: a failed start ends the loop
LoopNext_BreakOnFailure(endpc) ==
    IF idx < Len(ServerList) /\ ServerList[idx] \notin broken
    THEN /\ idx' = idx + 1
         /\ pc' = pc
    ELSE /\ idx' = 0
         /\ pc' = endpc

\* advance the start loop over the six servers
LoopNext(endpc) ==
    IF idx < Len(ServerList)
    THEN /\ idx' = idx + 1
         /\ pc' = pc
    ELSE /\ idx' = 0
         /\ pc' = endpc

\* the outcome of one start: the command throws (server in `broken`) or one
\* new process with command line `cmd` is alive
Spawned(n, cmd) ==
    IF n \in broken
    THEN /\ UNCHANGED <<procs, nextPid>>
    ELSE /\ procs' = procs \cup { [pid |-> nextPid, srv |-> n, cmd |-> cmd] }
         /\ nextPid' = nextPid + 1

Outcome(r, n) ==
    IF n \in broken
    THEN [r EXCEPT !.attempted = @ \cup {n}, !.failed = @ \cup {n}]
    ELSE [r EXCEPT !.attempted = @ \cup {n}, !.started = @ \cup {n}]

(* cursor-mcp-init *)

\* argument parsing and the "already running" gate
InitStart ==
    /\ pc = "idle"
    /\ Len(hist) < MaxRuns
    /\ \E forceInit \in BOOLEAN :
          LET r == Begin("init", forceInit,
                         { n \in AllServers :
                             \E pat \in InitPatternsOf(n) : isMCPServerRunning(pat) })
          IN IF isAnyMCPServerRunning /\ ~forceInit
             THEN /\ Finish([r EXCEPT !.gate = "exit", !.exit = 0])
                  /\ UNCHANGED procs
             ELSE /\ procs' = IF isAnyMCPServerRunning /\ forceInit
                              THEN killExistingMCPServers(procs) ELSE procs
                  /\ run' = [r EXCEPT !.gate =
                                IF isAnyMCPServerRunning THEN "kill" ELSE "none"]
                  /\ pc' = "init_cfg"
                  /\ UNCHANGED <<idx, hist>>
    /\ UNCHANGED <<cfgKind, cfgDoc, envGT, envPAT, dotEnv, profile, profileMode, cfgHist>>
    /\ UNCHANGED <<nextPid, broken, pidFile, logFiles, backups, net, repo, writing>>

\* "Update the MCP configuration" .. "Write updated configuration"
InitWriteConfig ==
    /\ pc = "init_cfg"
    /\ cfgKind' = "json"
    /\ cfgDoc' = InitConfigDoc(cfgKind, cfgDoc, Glob("wsA"))
    /\ pc' = "init_spawn"
    /\ idx' = 1
    /\ UNCHANGED <<envGT, envPAT, dotEnv, profile, profileMode, cfgHist>>
    /\ UNCHANGED <<procs, nextPid, broken, pidFile, logFiles, backups, net, repo, writing, run, hist>>

\* one iteration of "Start each server in the background"
InitSpawn ==
    /\ pc = "init_spawn"
    /\ Spawned(ServerList[idx], StartCmd(ServerList[idx]))
    /\ run' = Outcome(run, ServerList[idx])
    /\ LoopNext("init_end")
    /\ UNCHANGED <<cfgKind, cfgDoc, envGT, envPAT, dotEnv, profile, profileMode, cfgHist>>
    /\ UNCHANGED <<broken, pidFile, logFiles, backups, net, repo, writing, hist>>

\* "MCP servers initialized successfully!"; the script ends
InitFinish ==
    /\ pc = "init_end"
    /\ Finish([run EXCEPT !.exit = 0])
    /\ UNCHANGED <<cfgKind, cfgDoc, envGT, envPAT, dotEnv, profile, profileMode, cfgHist>>
    /\ UNCHANGED <<procs, nextPid, broken, pidFile, logFiles, backups, net, repo, writing>>

(* start-filesystem-mcp *)

\* "Kill any existing servers", the filesystem one only
StartFsKill_FilesystemOnly(table) == Pkill(table, <<"server-filesystem">>)

\* "Kill any existing servers": pkill -f "server-filesystem" || true, then
\* pkill -f "server-puppeteer" || true
StartFsKill(table) ==
    Pkill(Pkill(table, <<"server-filesystem">>), <<"server-puppeteer">>)

\* the script up to the two spawns: the config is written and the running
\* filesystem and puppeteer servers are killed, whatever the arguments
StartFsStart ==
    /\ pc = "idle"
    /\ Len(hist) < MaxRuns
    /\ cfgKind' = "json"
    /\ cfgDoc' = StartFsConfigDoc(cfgKind, cfgDoc, "wsA")
    /\ procs' = StartFsKill(procs)
    /\ run' = [Begin("startfs", TRUE, {}) EXCEPT !.gate = "kill"]
    /\ pc' = "fs_spawn"
    /\ idx' = 1
    /\ UNCHANGED <<envGT, envPAT, dotEnv, profile, profileMode, cfgHist>>
    /\ UNCHANGED <<nextPid, broken, pidFile, logFiles, backups, net, repo, writing, hist>>

\* spawn of the filesystem server (idx 1), then of the puppeteer server
\* (idx 2); the spawns are in no try block, so one that throws ends the
\* script with exit code 1
StartFsSpawn ==
    /\ pc = "fs_spawn"
    /\ LET n == ServerList[idx]
       IN /\ Spawned(n, StartCmd(n))
          /\ IF n \in broken
             THEN Finish([Outcome(run, n) EXCEPT !.exit = 1])
             ELSE /\ run' = Outcome(run, n)
                  /\ UNCHANGED hist
                  /\ IF idx < 2
                     THEN idx' = idx + 1 /\ pc' = pc
                     ELSE idx' = 0 /\ pc' = "fs_end"
    /\ UNCHANGED <<cfgKind, cfgDoc, envGT, envPAT, dotEnv, profile, profileMode, cfgHist>>
    /\ UNCHANGED <<broken, pidFile, logFiles, backups, net, repo, writing>>

\* "MCP servers started successfully in the background."; the script ends
StartFsFinish ==
    /\ pc = "fs_end"
    /\ Finish([run EXCEPT !.exit = 0])
    /\ UNCHANGED <<cfgKind, cfgDoc, envGT, envPAT, dotEnv, profile, profileMode, cfgHist>>
    /\ UNCHANGED <<procs, nextPid, broken, pidFile, logFiles, backups, net, repo, writing>>

\* the two scripts that stop running servers before they start new ones
NextForce ==
    \/ InitStart
    \/ InitWriteConfig
    \/ InitSpawn
    \/ InitFinish
    \/ StartFsStart
    \/ StartFsSpawn
    \/ StartFsFinish

SpecForce == InitSup /\ [][NextForce]_vars

checkGitHubToken(env, kind, doc, prof) ==
    \/ env # ""
    \/ ConfigToken(kind, doc) # ""
    \/ ProfileToken(prof) # ""

\* setupGitHubToken of cursor-startup with a non-empty answer: the document
\* written (a parse error is ignored and the default document used)
StartupTokenDoc(kind, doc, token) ==
    LET loaded == LoadConfig(kind, doc).doc
    IN [loaded EXCEPT !.servers = SetGithubToken(loaded.servers, token)]

\* the states of the probe loop: serverStatus[name] is set for every server
Probed(alive) ==
    [n \in AllServers |->
        <<"Unknown", "Probed", IF n \in alive THEN "AlreadyRunning" ELSE "NeedsStart">>]

\* the function returns: what it found running is final ("All MCP servers
\* are already running.", or the servers "Starting missing MCP servers..."
\* did not name)
Returned(trace) ==
    [n \in DOMAIN trace |->
        IF trace[n][Len(trace[n])] = "AlreadyRunning"
        THEN Append(trace[n], "ReportedFinal") ELSE trace[n]]

\* the start loop without the test of serverStatus
NeedsStart_Always(r, n) == TRUE

\* `if (!serverStatus[server.name])`
NeedsStart(r, n) == n \notin r.alive

\* the log line that ends the start of a server: "<name> MCP server
\* started." or "Error starting <name> server"
Logged(r, n) ==
    [r EXCEPT !.trace[n] = @ \o << IF n \in r.failed THEN "StartFailed" ELSE "Started",
                                    "ReportedFinal" >>]

\* main: write the optimized config if there is no config file, then
\* ensureMCPServersRunning up to "Start missing MCP servers"
StartupStart ==
    /\ pc = "idle"
    /\ Len(hist) < MaxRuns
    /\ LET kind == IF cfgKind = "missing" THEN "json" ELSE cfgKind
           doc == IF cfgKind = "missing"
                  THEN generateOptimizedConfig(envGT, cfgKind, cfgDoc, profile, "wsA")
                  ELSE cfgDoc
           alive == { n \in AllServers : isMCPServerRunning(CheckPattern(n)) }
           r == [Begin("startup", FALSE, alive) EXCEPT !.trace = Probed(alive)]
       IN /\ cfgKind' = kind
          /\ cfgDoc' = doc
          /\ IF r.alive = AllServers
             THEN Finish([r EXCEPT !.exit = 0, !.trace = Returned(@)])
             ELSE /\ run' = [r EXCEPT !.tokenExists =
                                checkGitHubToken(envGT, kind, doc, profile)]
                  /\ pc' = "up_spawn"
                  /\ idx' = 1
                  /\ UNCHANGED hist
    /\ UNCHANGED <<envGT, envPAT, dotEnv, profile, profileMode, cfgHist>>
    /\ UNCHANGED <<procs, nextPid, broken, pidFile, logFiles, backups, net, repo, writing>>

\* one iteration of "Start missing servers": skip a server probed alive;
\* otherwise prompt for a token (github without token), then npm run <start>
StartupSpawn ==
    /\ pc = "up_spawn"
    /\ LET n == ServerList[idx]
       IN IF ~NeedsStart(run, n)
          THEN UNCHANGED <<cfgKind, cfgDoc, procs, nextPid, run>>
          ELSE /\ IF n = "github" /\ ~run.tokenExists
                  THEN \E answer \in {"", "tokN"} :
                          IF answer # ""
                          THEN /\ cfgKind' = "json"
                               /\ cfgDoc' = StartupTokenDoc(cfgKind, cfgDoc, answer)
                          ELSE UNCHANGED <<cfgKind, cfgDoc>>
                  ELSE UNCHANGED <<cfgKind, cfgDoc>>
               /\ Spawned(n, NpmCmd(n))
               /\ run' = Logged(Outcome(run, n), n)
    /\ LoopNext("up_end")
    /\ UNCHANGED <<envGT, envPAT, dotEnv, profile, profileMode, cfgHist>>
    /\ UNCHANGED <<broken, pidFile, logFiles, backups, net, repo, writing, hist>>

\* "Cursor is ready for full AI automation"; the script ends
StartupFinish ==
    /\ pc = "up_end"
    /\ Finish([run EXCEPT !.exit = 0, !.trace = Returned(@)])
    /\ UNCHANGED <<cfgKind, cfgDoc, envGT, envPAT, dotEnv, profile, profileMode, cfgHist>>
    /\ UNCHANGED <<procs, nextPid, broken, pidFile, logFiles, backups, net, repo, writing>>

(* start-all-mcp *)

\* the log directory is created, then main up to the start loop; no server
\* is probed
StartAllStart ==
    /\ pc = "idle"
    /\ Len(hist) < MaxRuns
    /\ logFiles' = [logFiles EXCEPT !.exists = TRUE]
    /\ run' = Begin("startall", FALSE, {})
    /\ pc' = "sa_spawn"
    /\ idx' = 1
    /\ UNCHANGED <<cfgKind, cfgDoc, envGT, envPAT, dotEnv, profile, profileMode, cfgHist>>
    /\ UNCHANGED <<procs, nextPid, broken, pidFile, backups, net, repo, writing, hist>>

\* startMcpServer opens <name>-out.log and <name>-err.log for appending
\* (a new file is empty, an old one keeps its content); a server that
\* starts writes its banner to <name>-out.log
OpenLogs(files, n) ==
    LET out == <<DisplayName(n), "out">>
        err == <<DisplayName(n), "err">>
        opened == [f \in (DOMAIN files) \cup {out, err} |->
                      IF f \in DOMAIN files THEN files[f] ELSE ""]
    IN IF n \in broken THEN opened ELSE [opened EXCEPT ![out] = "banner"]

\* one iteration of "Start all servers": startMcpServer opens the two log
\* files and spawns; the pid is pushed unless startMcpServer threw
StartAllSpawn ==
    /\ pc = "sa_spawn"
    /\ LET n == ServerList[idx]
       IN /\ logFiles' = [logFiles EXCEPT !.files = OpenLogs(@, n)]
          /\ Spawned(n, StartCmd(n))
          /\ run' = [Outcome(run, n) EXCEPT !.pids =
                        IF n \in broken THEN @
                        ELSE Append(@, [name |-> DisplayName(n), pid |-> nextPid])]
    /\ LoopNext("sa_end")
    /\ UNCHANGED <<cfgKind, cfgDoc, envGT, envPAT, dotEnv, profile, profileMode, cfgHist>>
    /\ UNCHANGED <<broken, pidFile, backups, net, repo, writing, hist>>

\* "Save PIDs to file for later cleanup"; the script ends
StartAllFinish ==
    /\ pc = "sa_end"
    /\ pidFile' = [exists |-> TRUE, pids |-> run.pids]
    /\ Finish([run EXCEPT !.exit = 0])
    /\ UNCHANGED <<cfgKind, cfgDoc, envGT, envPAT, dotEnv, profile, profileMode, cfgHist>>
    /\ UNCHANGED <<procs, nextPid, broken, logFiles, backups, net, repo, writing>>

NextSup ==
    \/ InitStart
    \/ InitWriteConfig
    \/ InitSpawn
    \/ InitFinish
    \/ StartupStart
    \/ StartupSpawn
    \/ StartupFinish
    \/ StartAllStart
    \/ StartAllSpawn
    \/ StartAllFinish

SpecSup == InitSup /\ [][NextSup]_vars

Spec == SpecSup

----------------------------------------------------------------------------
(* Properties of the supervisor (SpecSup) *)

Runs == { hist[i] : i \in 1..Len(hist) }

\* the invocation went into its start loop
ReachedLoop(r) == r.gate # "exit" /\ (r.script = "startup" => r.alive # AllServers)

\* every server was alive or started when the invocation ended
AllUp(r) == r.failed = {} /\ r.alive \cup r.started = AllServers

ForceRunEnded ==
    /\ pc = "idle"
    /\ Len(hist) > 0
    /\ hist[Len(hist)].script = "init"
    /\ hist[Len(hist)].force

C3_SpawnIffProbedDead ==
    \A r \in Runs :
        (r.script \in {"init", "startup"} /\ ~r.force) =>
            r.attempted = AllServers \ r.alive

C10_ExitCodeReflectsFailure ==
    \A r \in Runs :
        r.script \in {"init", "startall"} =>
            /\ (r.failed = {} => r.exit = 0)
            /\ ((\E n \in r.failed : r.pre[n] = 0) => r.exit # 0)

----------------------------------------------------------------------------
(* stop-all-mcp *)

\* kill -9 <pid>: the process is gone (the command fails when there is none)
Kill9(table, pid) == { p \in table : p.pid # pid }

\* the `processPatterns` of the safety check, without mcprouter
SweepPatterns_NoRouter ==
    << <<"server-filesystem">>, <<"server-puppeteer">>, <<"server-github">>,
       <<"mcp-webresearch">> >>

\* the `processPatterns` of the safety check
SweepPatterns ==
    << <<"server-filesystem">>, <<"server-puppeteer">>, <<"server-github">>,
       <<"mcp-webresearch">>, <<"mcprouter">> >>

\* the outcome of one manifest entry: killed, or the catch "was already
\* stopped or not found"
StopOutcome(r, entry, alive) ==
    IF alive
    THEN [r EXCEPT !.stopped = @ \cup {entry}, !.killed = @ \cup {entry.pid}]
    ELSE [r EXCEPT !.gone = @ \cup {entry}]

\* the kill loop with the try/catch around the loop: a kill that fails goes
\* to "Error reading PID file", past the other entries and the unlink
KillLoopNext_OuterCatch(alive) ==
    IF ~alive
    THEN /\ idx' = 1
         /\ pc' = "stop_sweep"
    ELSE IF idx < Len(run.manifest)
         THEN /\ idx' = idx + 1
              /\ pc' = pc
         ELSE /\ idx' = 0
              /\ pc' = "stop_unlink"

\* advance "Kill each process" over the entries of the manifest
KillLoopNext(alive) ==
    IF idx < Len(run.manifest)
    THEN /\ idx' = idx + 1
         /\ pc' = pc
    ELSE /\ idx' = 0
         /\ pc' = "stop_unlink"

\* the unlink leaves the entries whose kill failed
ManifestAfterStop_KeepGone(r) ==
    [exists |-> r.gone # {},
     pids |-> SelectSeq(r.manifest, LAMBDA e : e \in r.gone)]

\* "Remove PID file"
ManifestAfterStop(r) == [exists |-> FALSE, pids |-> <<>>]

\* what an invocation leaves behind, noted when it ends
Ended(r, table, file) ==
    [r EXCEPT !.liveAfter = { p.srv : p \in table } \cap AllServers,
              !.manifestLeft = file.exists]

\* main up to "Kill each process", requiring the PID file
StopStart_RequireManifest ==
    /\ pc = "idle"
    /\ Len(hist) < MaxRuns
    /\ LET r == [Begin("stop", FALSE, {}) EXCEPT !.hadManifest = pidFile.exists,
                                                !.manifest = pidFile.pids]
       IN IF ~pidFile.exists
          THEN /\ Finish(Ended([r EXCEPT !.exit = 1], procs, pidFile))
          ELSE /\ run' = r
               /\ pc' = IF Len(r.manifest) > 0 THEN "stop_kill" ELSE "stop_unlink"
               /\ idx' = 1
               /\ UNCHANGED hist
    /\ UNCHANGED <<cfgKind, cfgDoc, envGT, envPAT, dotEnv, profile, profileMode, cfgHist>>
    /\ UNCHANGED <<procs, nextPid, broken, pidFile, logFiles, backups, net, repo, writing>>

\* main up to "Kill each process": the PID file is read when it exists
StopStart ==
    /\ pc = "idle"
    /\ Len(hist) < MaxRuns
    /\ LET r == [Begin("stop", FALSE, {}) EXCEPT !.hadManifest = pidFile.exists,
                                                !.manifest = pidFile.pids]
       IN /\ run' = r
          /\ pc' = IF ~pidFile.exists THEN "stop_sweep"
                   ELSE IF Len(r.manifest) > 0 THEN "stop_kill" ELSE "stop_unlink"
          /\ idx' = 1
          /\ UNCHANGED hist
    /\ UNCHANGED <<cfgKind, cfgDoc, envGT, envPAT, dotEnv, profile, profileMode, cfgHist>>
    /\ UNCHANGED <<procs, nextPid, broken, pidFile, logFiles, backups, net, repo, writing>>

\* one iteration of "Kill each process"
StopKill ==
    /\ pc = "stop_kill"
    /\ LET entry == run.manifest[idx]
           alive == \E p \in procs : p.pid = entry.pid
       IN /\ procs' = Kill9(procs, entry.pid)
          /\ run' = [StopOutcome(run, entry, alive) EXCEPT !.victims =
                        @ \cup { [pid |-> p.pid, srv |-> p.srv, name |-> entry.name] :
                                   p \in { q \in procs : q.pid = entry.pid } }]
          /\ KillLoopNext(alive)
    /\ UNCHANGED <<cfgKind, cfgDoc, envGT, envPAT, dotEnv, profile, profileMode, cfgHist>>
    /\ UNCHANGED <<nextPid, broken, pidFile, logFiles, backups, net, repo, writing, hist>>

\* "Remove PID file"
StopUnlink ==
    /\ pc = "stop_unlink"
    /\ pidFile' = ManifestAfterStop(run)
    /\ pc' = "stop_sweep"
    /\ idx' = 1
    /\ UNCHANGED <<cfgKind, cfgDoc, envGT, envPAT, dotEnv, profile, profileMode, cfgHist>>
    /\ UNCHANGED <<procs, nextPid, broken, logFiles, backups, net, repo, writing, run, hist>>

\* one iteration of the safety check: grep the process table for the
\* pattern and pkill -f it when there is a match
StopSweep ==
    /\ pc = "stop_sweep"
    /\ LET pat == SweepPatterns[idx]
           hit == { p \in procs : Matches(pat, p.cmd) }
       IN /\ procs' = IF isMCPServerRunning(pat) THEN Pkill(procs, pat) ELSE procs
          /\ run' = [run EXCEPT !.swept = @ \cup {pat},
                                !.killed = @ \cup { p.pid : p \in hit },
                                !.victims = @ \cup { [pid |-> p.pid, srv |-> p.srv,
                                                      name |-> ""] : p \in hit }]
    /\ IF idx < Len(SweepPatterns)
       THEN /\ idx' = idx + 1
            /\ pc' = pc
       ELSE /\ idx' = 0
            /\ pc' = "stop_end"
    /\ UNCHANGED <<cfgKind, cfgDoc, envGT, envPAT, dotEnv, profile, profileMode, cfgHist>>
    /\ UNCHANGED <<nextPid, broken, pidFile, logFiles, backups, net, repo, writing, hist>>

\* the names a log directory can hold, in the order readdirSync lists them
LogNames ==
    << <<"Filesystem", "out">>, <<"Filesystem", "err">>,
       <<"Puppeteer", "out">>, <<"Puppeteer", "err">>,
       <<"GitHub", "out">>, <<"GitHub", "err">>,
       <<"WebResearch", "out">>, <<"WebResearch", "err">>,
       <<"Fetch", "out">>, <<"Fetch", "err">>,
       <<"Sequential", "out">>, <<"Sequential", "err">> >>

\* the first k files of the directory listing
FirstFiles(files, k) ==
    LET listing == SelectSeq(LogNames, LAMBDA f : f \in DOMAIN files)
    IN { listing[i] : i \in 1..k }

\* log handling that removes each live file after the copy loop
BackupLogs_Unlink(files, stage, k) ==
    LET first == FirstFiles(files, k)
    IN CASE stage = "copy" ->
              [backup |-> [f \in first |-> files[f]], live |-> files, error |-> "copy"]
         [] stage = "clear" ->
              [backup |-> files,
               live |-> [f \in (DOMAIN files) \ first |-> files[f]],
               error |-> "clear"]
         [] OTHER ->
              [backup |-> files, live |-> EmptyMap, error |-> "none"]

\* log handling that copies and empties file by file in one loop
BackupLogs_Interleaved(files, stage, k) ==
    LET first == FirstFiles(files, k)
    IN CASE stage \in {"copy", "clear"} ->
              [backup |-> [f \in first |-> files[f]],
               live |-> [f \in DOMAIN files |-> IF f \in first THEN "" ELSE files[f]],
               error |-> stage]
         [] OTHER ->
              [backup |-> files, live |-> [f \in DOMAIN files |-> ""], error |-> "none"]

\* the log handling of stop-all-mcp: every file of the listing is copied to
\* the backup directory, then every file is overwritten with ''.  A throw
\* ends it: in the copy loop (stage "copy") after k files were copied, or in
\* the second loop (stage "clear") after k files were emptied.
BackupLogs(files, stage, k) ==
    LET first == FirstFiles(files, k)
    IN CASE stage = "copy" ->
              [backup |-> [f \in first |-> files[f]], live |-> files, error |-> "copy"]
         [] stage = "clear" ->
              [backup |-> files,
               live |-> [f \in DOMAIN files |-> IF f \in first THEN "" ELSE files[f]],
               error |-> "clear"]
         [] OTHER ->
              [backup |-> files, live |-> [f \in DOMAIN files |-> ""], error |-> "none"]

\* the log files are backed up and emptied when mcp-logs exists;
\* "All MCP servers stopped."; the script ends
StopFinish ==
    /\ pc = "stop_end"
    /\ IF ~logFiles.exists
       THEN /\ UNCHANGED <<logFiles, backups>>
            /\ Finish(Ended([run EXCEPT !.exit = 0], procs, pidFile))
       ELSE \E stage \in {"copy", "clear", "done"} :
            \E k \in 0..Cardinality(DOMAIN logFiles.files) :
               /\ stage = "done" => k = 0
               /\ stage # "done" => k < Cardinality(DOMAIN logFiles.files)
               /\ LET b == BackupLogs(logFiles.files, stage, k)
                  IN /\ logFiles' = [logFiles EXCEPT !.files = b.live]
                     /\ backups' = Append(backups, b.backup)
                     /\ Finish(Ended([run EXCEPT !.exit = 0,
                                                 !.logsBefore = logFiles,
                                                 !.logsAfter = logFiles',
                                                 !.backup = b.backup,
                                                 !.logsError = b.error],
                                     procs, pidFile))
    /\ UNCHANGED <<cfgKind, cfgDoc, envGT, envPAT, dotEnv, profile, profileMode, cfgHist>>
    /\ UNCHANGED <<procs, nextPid, broken, pidFile, net, repo, writing>>

\* start-all-mcp or stop-all-mcp is killed (Ctrl-C) between two steps
Interrupt ==
    /\ pc # "idle"
    /\ run.script \in {"startall", "stop"}
    /\ Finish(Ended([run EXCEPT !.interrupted = TRUE, !.exit = 130], procs, pidFile))
    /\ UNCHANGED <<cfgKind, cfgDoc, envGT, envPAT, dotEnv, profile, profileMode, cfgHist>>
    /\ UNCHANGED <<procs, nextPid, broken, pidFile, logFiles, backups, net, repo, writing>>

----------------------------------------------------------------------------
(* SpecStop: start-all-mcp and stop-all-mcp over the process table and     *)
(* mcp-pids.json                                                            *)

\* processes that may be alive before the first invocation: a server of
\* each sweep pattern kind, started by a start script or by npm run, and an
\* unrelated process
OrphanTemplates ==
    << [srv |-> "filesystem", cmd |-> StartCmd("filesystem")],
       [srv |-> "github", cmd |-> StartCmd("github")],
       [srv |-> "sequentialthinking", cmd |-> StartCmd("sequentialthinking")],
       [srv |-> "fetch", cmd |-> NpmCmd("fetch")],
       [srv |-> "none", cmd |-> <<"vim", "mcprouter">>] >>

OrphanTables ==
    { f \in UNION { [1..k -> 1..Len(OrphanTemplates)] : k \in 0..MaxOrphans } :
        \A i \in 1..(Len(f) - 1) : f[i] <= f[i + 1] }

\* the manifest entries start-all-mcp wrote for the processes of `table`
\* that are servers, in pid order; with `reused`, also an entry for each
\* pid that a GitHub server had when the manifest was written and that an
\* unrelated process has now
RECURSIVE EntriesOf(_, _, _)
EntriesOf(table, k, reused) ==
    IF k = 0 THEN <<>>
    ELSE LET here == { p \in table : p.pid = k /\ (reused \/ p.srv \in AllServers) }
         IN EntriesOf(table, k - 1, reused)
            \o (IF here = {} THEN <<>>
                ELSE LET p == CHOOSE q \in here : TRUE
                     IN << [name |-> IF p.srv \in AllServers THEN DisplayName(p.srv)
                                     ELSE "GitHub",
                            pid |-> p.pid] >>)

InitStop ==
    /\ cfgKind = "missing"
    /\ cfgDoc = EmptyDoc
    /\ envGT = ""
    /\ envPAT = ""
    /\ dotEnv = NoDotEnv
    /\ profile = <<>>
    /\ profileMode = "ok"
    /\ cfgHist = <<>>
    /\ \E f \in OrphanTables :
          \* pid Len(f) + 1 belonged to a GitHub server that has exited
          /\ procs = { [pid |-> i, srv |-> OrphanTemplates[f[i]].srv,
                                  cmd |-> OrphanTemplates[f[i]].cmd] : i \in 1..Len(f) }
          /\ nextPid = Len(f) + 2
          /\ \E stale \in BOOLEAN, listed \in BOOLEAN, exists \in BOOLEAN, reused \in BOOLEAN :
                pidFile =
                    IF ~exists THEN [exists |-> FALSE, pids |-> <<>>]
                    ELSE [exists |-> TRUE,
                          pids |-> (IF stale THEN << [name |-> "GitHub", pid |-> Len(f) + 1] >>
                                    ELSE <<>>)
                                   \o (IF listed THEN EntriesOf(procs, Len(f), reused)
                                       ELSE <<>>)]
    /\ broken = {}
    \* no log directory, or the log of an earlier session
    /\ logFiles \in { [exists |-> FALSE, files |-> EmptyMap],
                      [exists |-> TRUE, files |-> [f \in {<<"Filesystem", "out">>} |-> "old"]] }
    /\ OthersQuiet
    /\ pc = "idle"
    /\ idx = 0
    /\ run = NoRun
    /\ hist = <<>>

NextStop ==
    \/ StartAllStart
    \/ StartAllSpawn
    \/ StartAllFinish
    \/ StopStart
    \/ StopKill
    \/ StopUnlink
    \/ StopSweep
    \/ StopFinish
    \/ Interrupt

SpecStop == InitStop /\ [][NextStop]_vars

----------------------------------------------------------------------------
(* Properties of start-all-mcp and stop-all-mcp (SpecStop) *)

\* the invocations so far, the running one included
RunsAndCurrent == Runs \cup (IF pc = "idle" THEN {} ELSE {run})

\* the stop-all-mcp invocations that reached "All MCP servers stopped."
CompletedStops == { r \in Runs : r.script = "stop" /\ ~r.interrupted }

\* the entries of a manifest
EntrySet(entries) == { entries[i] : i \in 1..Len(entries) }

\* C11: with no stop so far, mcp-pids.json lists every process a start run
\* has spawned, from the moment of the spawn on and across start runs
\* (interrupted ones included).
C11_ManifestListsEverySpawn ==
    (\A r \in RunsAndCurrent : r.script # "stop") =>
        \A r \in RunsAndCurrent : \A i \in 1..Len(r.pids) :
            /\ pidFile.exists
            /\ r.pids[i] \in EntrySet(pidFile.pids)

C13_StalePidIsNonFatalAndRemoved ==
    \A r \in CompletedStops :
        \A e \in EntrySet(r.manifest) :
            e.pid \notin r.prePids =>
                /\ e \in r.gone
                /\ e \notin r.stopped
                /\ r.exit = 0
                /\ ~r.manifestLeft
                /\ (hist[Len(hist)] = r /\ pc = "idle" => e \notin EntrySet(pidFile.pids))

\* a completed stop-all-mcp whose manifest named a pid that did not exist
C13_Witness ==
    /\ pc = "idle"
    /\ hist # <<>>
    /\ LET r == hist[Len(hist)]
       IN /\ r \in CompletedStops
          /\ \E e \in EntrySet(r.manifest) : e.pid \notin r.prePids /\ e \in r.gone

\* C14: a completed stop-all-mcp has tried every entry of the manifest it
\* read and every sweep pattern; an entry that could not be stopped is
\* recorded for that entry only, and the script ends normally.
C14_StopAllTriesEverything ==
    \A r \in CompletedStops :
        /\ r.stopped \cup r.gone = EntrySet(r.manifest)
        /\ r.stopped \cap r.gone = {}
        /\ \A e \in EntrySet(r.manifest) : e.pid \in r.prePids => e \in r.stopped
        /\ r.swept = { SweepPatterns[i] : i \in 1..Len(SweepPatterns) }
        /\ r.exit = 0

\* a completed stop-all-mcp whose first entry failed and whose second entry
\* was stopped
C14_Witness ==
    \E r \in CompletedStops :
        /\ Len(r.manifest) >= 2
        /\ r.manifest[1] \in r.gone
        /\ r.manifest[2] \in r.stopped

C22_LogsBackedUpThenTruncated ==
    \A r \in CompletedStops :
       (r.logsBefore.exists /\ r.logsError = "none")
          => /\ r.logsAfter.exists
             /\ DOMAIN r.logsAfter.files = DOMAIN r.logsBefore.files
             /\ \A f \in DOMAIN r.logsAfter.files : r.logsAfter.files[f] = ""
             /\ r.backup = r.logsBefore.files
             /\ \E j \in 1..Len(backups) : backups[j] = r.logsBefore.files

\* a stop that backed up and emptied the logs of a start-all-mcp run, one of
\* them not empty
C22_Witness ==
    \E r \in CompletedStops :
        /\ r.logsBefore.exists
        /\ r.logsError = "none"
        /\ Cardinality(DOMAIN r.logsBefore.files) = Len(LogNames)
        /\ \E f \in DOMAIN r.logsBefore.files : r.logsBefore.files[f] = "banner"

\* C27: stop-all-mcp kills managed server processes only: a process killed
\* through a manifest entry is the server the entry was written for, and a
\* process killed by the pattern sweep is one of the six servers.
C27_OnlyManagedProcessesKilled ==
    \A r \in RunsAndCurrent :
       r.script = "stop" =>
          \A v \in r.victims :
             /\ v.srv \in AllServers
             /\ v.name # "" => v.name = DisplayName(v.srv)

\* C29: a stop-all-mcp changes a log file only after it has copied every
\* file of the log directory to the backup directory; when a copy fails,
\* every log file keeps its content.
C29_NoTruncationBeforeAllCopied ==
    \A r \in CompletedStops :
       /\ (\E f \in DOMAIN r.logsBefore.files :
               f \notin DOMAIN r.logsAfter.files
               \/ r.logsAfter.files[f] # r.logsBefore.files[f])
             => r.backup = r.logsBefore.files
       /\ r.logsError = "copy" => r.logsAfter = r.logsBefore

\* a stop whose copy loop failed after it had copied a file that is not
\* empty
C29_Witness ==
    \E r \in CompletedStops :
        /\ r.logsError = "copy"
        /\ \E f \in DOMAIN r.backup : r.backup[f] # ""
        /\ DOMAIN r.backup # DOMAIN r.logsBefore.files
        /\ r.logsAfter = r.logsBefore

----------------------------------------------------------------------------
(* Credentials: the GitHub token in the environment, mcp.json, the shell   *)
(* profile and ./.env                                                       *)

\* checkExistingToken of setup-github-token (getExistingGitHubToken of
\* optimize-mcp-config is the same code): GITHUB_TOKEN, then the config
\* document inside a try/catch, then readFileSync of the profile outside any
\* try/catch; "" is null
checkExistingToken(gt, kind, doc, pmode, prof) ==
    IF gt # "" THEN [value |-> gt, threw |-> FALSE]
    ELSE IF ConfigToken(kind, doc) # ""
         THEN [value |-> ConfigToken(kind, doc), threw |-> FALSE]
    ELSE IF pmode = "unreadable" THEN [value |-> "", threw |-> TRUE]
    ELSE [value |-> ProfileToken(prof), threw |-> FALSE]

\* full-automation setup, "Check for existing GitHub token": the profile is
\* read inside a try/catch
hasGithubToken(gt, kind, doc, pmode, prof) ==
    \/ gt # ""
    \/ ConfigToken(kind, doc) # ""
    \/ pmode = "ok" /\ ProfileToken(prof) # ""

\* cursor-mcp-init, "Add GitHub token compatibility": process.env after the
\* two assignments
EnvCompat(gt, pat) ==
    [GT |-> IF gt = "" THEN pat ELSE gt,
     PAT |-> IF pat = "" THEN gt ELSE pat]

\* RunGithubEnv without the test of githubToken: ./.env is always read and
\* fills the variables that are not set
RunGithubEnv_AlwaysFile(gt, pat, file) ==
    LET g == IF gt = "" THEN file.GT ELSE gt
    IN [GT |-> g, PAT |-> IF pat = "" /\ g = "" THEN file.PAT ELSE pat,
        consulted |-> TRUE]

\* run-github-mcp: process.env after "check .env file", and whether the
\* file was looked into
RunGithubEnv(gt, pat, file) ==
    IF gt # "" \/ pat # "" THEN [GT |-> gt, PAT |-> pat, consulted |-> FALSE]
    ELSE [GT |-> file.GT, PAT |-> IF file.GT = "" THEN file.PAT ELSE "",
          consulted |-> TRUE]

\* the first non-empty value of a list of sources, "" when there is none
RECURSIVE FirstNonEmpty(_)
FirstNonEmpty(srcs) ==
    IF srcs = <<>> THEN ""
    ELSE IF Head(srcs) # "" THEN Head(srcs)
    ELSE FirstNonEmpty(Tail(srcs))

\* setup-github-token, main: look for an existing token, ask whether to use
\* it or prompt for a new one, then setupGitHubToken(token)
SetupGithubMain ==
    /\ \/ pc = "idle" /\ Len(cfgHist) < MaxCfgRuns
       \/ pc = "setup_github"
    /\ pc' = "idle"
    /\ LET found == checkExistingToken(envGT, cfgKind, cfgDoc, profileMode, profile)
           rec == [CfgRecord("setupgithub", "", cfgDoc, FALSE) EXCEPT
                       !.resolved = found.value, !.threw = found.threw]
       IN IF found.threw
          THEN /\ cfgHist' = Append(cfgHist, [rec EXCEPT !.exit = 1])
               /\ UNCHANGED <<cfgKind, cfgDoc, profile>>
          ELSE \E useExisting \in BOOLEAN, typed \in {"", "tokN"},
                  proceed \in BOOLEAN, addToProfile \in BOOLEAN :
                  LET reuse == found.value # "" /\ useExisting
                      token == IF reuse THEN found.value ELSE typed
                      asked == [rec EXCEPT !.prompted = ~reuse, !.token = token]
                  IN IF token = "" \/ ~proceed
                     THEN /\ cfgHist' = Append(cfgHist, asked)
                          /\ UNCHANGED <<cfgKind, cfgDoc, profile>>
                     ELSE /\ cfgKind' = "json"
                          /\ cfgDoc' = TokenSetupDoc(cfgKind, cfgDoc, token)
                          /\ profile' = IF addToProfile /\ profileMode = "ok"
                                        THEN TokenSetupProfile(profile, token)
                                        ELSE profile
                          /\ cfgHist' = Append(cfgHist,
                                [asked EXCEPT !.after = TokenSetupDoc(cfgKind, cfgDoc, token),
                                              !.wrote = TRUE, !.agreed = addToProfile])
    /\ UNCHANGED <<envGT, envPAT, dotEnv, profileMode>>
    /\ UNCHANGED <<procs, nextPid, broken, pidFile, logFiles, backups, net, repo, writing, idx, run, hist>>

\* full-automation setup, steps 2 and 3: run optimize-mcp-config, check for
\* a token, and ask to run the token setup when there is none
FullSetupGitHub ==
    /\ pc = "idle"
    /\ Len(cfgHist) < MaxCfgRuns
    /\ LET found == checkExistingToken(envGT, cfgKind, cfgDoc, profileMode, profile)
           optimized == generateOptimizedConfig(envGT, cfgKind, cfgDoc, profile, "wsA")
           rec == [CfgRecord("fullsetup", Glob("wsA"), cfgDoc, FALSE) EXCEPT
                       !.resolved = found.value, !.threw = found.threw]
       IN IF found.threw
          THEN /\ cfgHist' = Append(cfgHist, [rec EXCEPT !.exit = 1])
               /\ pc' = "idle"
               /\ UNCHANGED <<cfgKind, cfgDoc>>
          ELSE /\ cfgKind' = "json"
               /\ cfgDoc' = optimized
               /\ IF hasGithubToken(envGT, "json", optimized, profileMode, profile)
                  THEN /\ cfgHist' = Append(cfgHist,
                              [rec EXCEPT !.after = optimized, !.wrote = TRUE])
                       /\ pc' = "idle"
                  ELSE \E answer \in BOOLEAN :
                          /\ cfgHist' = Append(cfgHist,
                                [rec EXCEPT !.after = optimized, !.wrote = TRUE,
                                            !.prompted = TRUE])
                          /\ pc' = IF answer THEN "setup_github" ELSE "idle"
    /\ UNCHANGED <<envGT, envPAT, dotEnv, profile, profileMode>>
    /\ UNCHANGED <<procs, nextPid, broken, pidFile, logFiles, backups, net, repo, writing, idx, run, hist>>

\* run-github-mcp: take the token from the environment or ./.env, give up
\* without one, else start the GitHub server with process.env
RunGithubMcp ==
    /\ pc = "idle"
    /\ Len(cfgHist) < MaxCfgRuns
    /\ LET env == RunGithubEnv(envGT, envPAT, dotEnv)
           rec == [CfgRecord("rungithub", "", cfgDoc, FALSE) EXCEPT
                       !.resolved = FirstNonEmpty(<<env.GT, env.PAT>>),
                       !.consulted = env.consulted]
       IN IF env.GT = "" /\ env.PAT = ""
          THEN /\ cfgHist' = Append(cfgHist, [rec EXCEPT !.exit = 1])
               /\ UNCHANGED <<procs, nextPid>>
          ELSE /\ cfgHist' = Append(cfgHist,
                      [rec EXCEPT !.spawned = TRUE, !.childGT = env.GT,
                                  !.childPAT = env.PAT])
               /\ procs' = procs \cup { [pid |-> nextPid, srv |-> "github",
                                         cmd |-> StartCmd("github")] }
               /\ nextPid' = nextPid + 1
    /\ UNCHANGED <<cfgKind, cfgDoc, envGT, envPAT, dotEnv, profile, profileMode>>
    /\ UNCHANGED <<broken, pidFile, logFiles, backups, net, repo, writing, pc, idx, run, hist>>

\* cursor-mcp-init, before the gate: the environment the servers it starts
\* will inherit
InitCompat ==
    /\ pc = "idle"
    /\ Len(cfgHist) < MaxCfgRuns
    /\ LET env == EnvCompat(envGT, envPAT)
       IN cfgHist' = Append(cfgHist,
              [CfgRecord("initenv", "", cfgDoc, FALSE) EXCEPT
                   !.resolved = FirstNonEmpty(<<env.GT, env.PAT>>),
                   !.childGT = env.GT, !.childPAT = env.PAT])
    /\ UNCHANGED <<cfgKind, cfgDoc, envGT, envPAT, dotEnv, profile, profileMode>>
    /\ UNCHANGED supVars

----------------------------------------------------------------------------
(* SpecCred: the credential scripts over the four sources *)

\* the github entries a persisted document may hold: none, one without env,
\* one with a token, one with the placeholder of optimize-mcp-config
CredDocs ==
    { [EmptyDoc EXCEPT !.servers = m] :
        m \in { EmptyMap }
              \cup { [n \in {"github"} |-> e] :
                       e \in { GeneratedEntry("github", "wsA", PuppeteerEnv),
                               GithubEntryWithToken("tokC"),
                               GithubEntryWithToken(Placeholder) } } }

DotEnvFiles ==
    { NoDotEnv, [GT |-> "tokD", PAT |-> ""], [GT |-> "", PAT |-> "tokD"] }

InitCred ==
    /\ cfgKind \in {"missing", "corrupt", "json"}
    /\ cfgDoc \in IF cfgKind = "json" THEN CredDocs ELSE {EmptyDoc}
    /\ envGT \in {"", "tokE"}
    /\ envPAT \in {"", "tokA"}
    /\ dotEnv \in DotEnvFiles
    /\ profileMode \in {"ok", "unreadable"}
    /\ profile \in IF profileMode = "ok" THEN {<<>>, <<"tokP">>} ELSE {<<"tokP">>}
    /\ cfgHist = <<>>
    /\ SupQuiet

NextCred ==
    \/ SetupGithubMain
    \/ FullSetupGitHub
    \/ RunGithubMcp
    \/ InitCompat

SpecCred == InitCred /\ [][NextCred]_vars

----------------------------------------------------------------------------
(* Properties of the credential scripts (SpecCred) *)

\* no source holds a token: environment, config document, shell profile
NoTokenAnywhere(r) ==
    /\ r.gt = ""
    /\ r.pat = ""
    /\ ConfigToken(r.kindBefore, r.before) = ""
    /\ r.prof = <<>>
    /\ r.profMode = "ok"

\* C16: when no credential source holds a GitHub token, the full-automation
\* setup prompts the user instead of treating the token as configured.
C16_PromptsWhenNoToken ==
    \A r \in CfgRuns :
        (r.script = "fullsetup" /\ NoTokenAnywhere(r)) => r.prompted

\* C17: resolution returns the first non-empty of GITHUB_TOKEN,
\* GITHUB_PERSONAL_ACCESS_TOKEN, the token in the config document and the
\* token in the shell profile.
C17_ResolutionPriority ==
    \A r \in CfgRuns :
        (r.script \in {"setupgithub", "fullsetup"} /\ ~r.threw) =>
            r.resolved = FirstNonEmpty(<< r.gt, r.pat,
                                          ConfigToken(r.kindBefore, r.before),
                                          ProfileToken(r.prof) >>)

\* C18: a script that found the credential under either name, in the
\* environment or in .env, passes it on under both names.
C18_BothNamesMirrored ==
    \A r \in CfgRuns :
        (r.script \in {"initenv", "rungithub"} /\ r.resolved # "") =>
            /\ r.childGT = r.resolved
            /\ r.childPAT = r.resolved

\* C19: resolution never throws, whatever the state of the config file and
\* the profile file.
C19_ResolutionNeverThrows ==
    \A r \in CfgRuns :
        r.script \in {"setupgithub", "fullsetup"} => ~r.threw

\* C20: when the token setup has run to its end with token T and the user
\* agreed to the profile change, T is in the shell profile, in
\* mcpServers.github.env.GITHUB_TOKEN and in ./.env.
C20_TokenStoredInThreePlaces ==
    (cfgHist # <<>> /\ pc = "idle") =>
        LET r == cfgHist[Len(cfgHist)]
        IN (r.script = "setupgithub" /\ r.wrote /\ r.agreed) =>
              /\ ConfigToken(cfgKind, cfgDoc) = r.token
              /\ ProfileToken(profile) = r.token
              /\ dotEnv.GT = r.token

\* C30: run-github-mcp starts the GitHub server exactly when, after the
\* environment and then ./.env were checked, GITHUB_TOKEN or
\* GITHUB_PERSONAL_ACCESS_TOKEN is set in its environment, and the server
\* gets that environment; otherwise it exits with code 1 and starts
\* nothing; it looks into ./.env only when neither variable was set at the
\* start, and then the file decides.
C30_GithubServerOnlyWithToken ==
    /\ \A i \in 1..Len(cfgHist) :
          LET r == cfgHist[i]
              inEnv == r.gt # "" \/ r.pat # ""
              inFile == r.file.GT # "" \/ r.file.PAT # ""
          IN r.script = "rungithub" =>
                /\ r.spawned = (r.childGT # "" \/ r.childPAT # "")
                /\ r.spawned = (inEnv \/ inFile)
                /\ ~r.spawned => r.exit = 1
                /\ r.consulted = ~inEnv
                /\ inEnv => (r.childGT = r.gt /\ r.childPAT = r.pat)
                /\ (r.spawned /\ ~inEnv) =>
                      \/ r.childGT = r.file.GT /\ r.childGT # ""
                      \/ r.childPAT = r.file.PAT /\ r.childPAT # ""
    /\ (\A j \in 1..Len(cfgHist) : ~cfgHist[j].spawned) => procs = {}

\* a run without a token in the environment that found
\* GITHUB_PERSONAL_ACCESS_TOKEN in ./.env and started the server with it
C30_Witness ==
    \E j \in 1..Len(cfgHist) :
        /\ cfgHist[j].script = "rungithub"
        /\ cfgHist[j].gt = "" /\ cfgHist[j].pat = ""
        /\ cfgHist[j].spawned
        /\ cfgHist[j].consulted
        /\ cfgHist[j].childGT = "" /\ cfgHist[j].childPAT = cfgHist[j].file.PAT
        /\ \E p \in procs : p.srv = "github"

----------------------------------------------------------------------------
(* The health test script (testMCPServers): two npm tests and four TCP      *)
(* probes, then the summary and the exit code                               *)

\* the six tests in the order of the script; `exec` runs an npm script with
\* execSync, `exec_token` does so only when a GitHub token is in the
\* environment, `tcp` awaits testTCP(port)
Tests ==
    << [name |-> "Filesystem", kind |-> "exec", port |-> 0],
       [name |-> "Puppeteer", kind |-> "tcp", port |-> 9222],
       [name |-> "GitHub", kind |-> "exec_token", port |-> 0],
       [name |-> "WebResearch", kind |-> "tcp", port |-> 3000],
       [name |-> "Fetch", kind |-> "tcp", port |-> 3001],
       [name |-> "Sequential", kind |-> "tcp", port |-> 3002] >>

\* `npm run mcp-fs -- --test` and `npm run mcp-github -- --test` under
\* execSync: the command ends, with status 0 or not
NpmTestOutcomes == {"ok", "failed"}

\* a promise is settled by the first resolve or reject only
Settle(promise, outcome) == IF promise = "pending" THEN outcome ELSE promise

NoTest == [script |-> "test", results |-> <<>>, allPassed |-> TRUE, exit |-> -1]

\* console.log of a passed test, or the catch block of a failed one
Recorded(r, name, outcome) ==
    [r EXCEPT !.results = Append(@, [name |-> name, outcome |-> outcome]),
              !.allPassed = @ /\ outcome \in {"ok", "skipped"}]

\* testTCP: a new socket, the 1000 ms timer, and connect()
testTCP(n, port) ==
    [n EXCEPT !.port = port, !.socket = "connecting", !.timer = "armed",
              !.promise = "pending", !.calls = <<>>]

\* the connect callback: clearTimeout, destroy, resolve
onConnect(n) ==
    [n EXCEPT !.timer = IF @ = "armed" THEN "cleared" ELSE @,
              !.socket = "destroyed",
              !.promise = Settle(@, "resolved"),
              !.calls = Append(@, "connect")]

\* the 'error' handler: clearTimeout, reject; the socket closes itself
onError(n) ==
    [n EXCEPT !.timer = IF @ = "armed" THEN "cleared" ELSE @,
              !.socket = "closed",
              !.promise = Settle(@, "failed"),
              !.calls = Append(@, "error")]

\* a timer callback that destroys the socket and leaves the promise alone
onTimeout_NoReject(n) ==
    [n EXCEPT !.timer = "fired",
              !.socket = "destroyed",
              !.calls = Append(@, "timeout")]

\* the timer callback: destroy, reject
onTimeout(n) ==
    [n EXCEPT !.timer = "fired",
              !.socket = "destroyed",
              !.promise = Settle(@, "timeout"),
              !.calls = Append(@, "timeout")]

TestFrame ==
    UNCHANGED <<cfgKind, cfgDoc, envGT, envPAT, dotEnv, profile, profileMode, cfgHist,
                procs, nextPid, broken, pidFile, logFiles, backups, repo, writing, hist>>

TestStart ==
    /\ pc = "idle"
    /\ pc' = "test"
    /\ idx' = 1
    /\ run' = NoTest
    /\ UNCHANGED net
    /\ TestFrame

\* the Filesystem and the GitHub test
TestExec ==
    /\ pc = "test"
    /\ idx \in 1..Len(Tests)
    /\ Tests[idx].kind # "tcp"
    /\ \E o \in NpmTestOutcomes :
          LET skip == Tests[idx].kind = "exec_token" /\ envGT = "" /\ envPAT = ""
          IN run' = Recorded(run, Tests[idx].name, IF skip THEN "skipped" ELSE o)
    /\ idx' = idx + 1
    /\ UNCHANGED <<pc, net>>
    /\ TestFrame

\* `await testTCP(port)`: the probe is started and the script waits
ProbeStart ==
    /\ pc = "test"
    /\ idx \in 1..Len(Tests)
    /\ Tests[idx].kind = "tcp"
    /\ net' = testTCP(net, Tests[idx].port)
    /\ pc' = "await"
    /\ UNCHANGED <<idx, run>>
    /\ TestFrame

\* the connection is accepted
SocketConnect ==
    /\ net.socket = "connecting"
    /\ net.ports[net.port] = "open"
    /\ net' = onConnect(net)
    /\ UNCHANGED <<pc, idx, run>>
    /\ TestFrame

\* the connection is refused
SocketError ==
    /\ net.socket = "connecting"
    /\ net.ports[net.port] = "refused"
    /\ net' = onError(net)
    /\ UNCHANGED <<pc, idx, run>>
    /\ TestFrame

\* 1000 ms have passed and the timer was not cleared
TimerFire ==
    /\ net.timer = "armed"
    /\ net' = onTimeout(net)
    /\ UNCHANGED <<pc, idx, run>>
    /\ TestFrame

\* the awaited promise is settled: the try block goes on, or its catch runs
ProbeSettled ==
    /\ pc = "await"
    /\ net.promise \in {"resolved", "failed", "timeout"}
    /\ run' = Recorded(run, Tests[idx].name,
                       IF net.promise = "resolved" THEN "ok" ELSE net.promise)
    /\ idx' = idx + 1
    /\ pc' = "test"
    /\ UNCHANGED net
    /\ TestFrame

\* "Test Summary" and process.exit
TestSummary ==
    /\ pc = "test"
    /\ idx = Len(Tests) + 1
    /\ run' = [run EXCEPT !.exit = IF run.allPassed THEN 0 ELSE 1]
    /\ pc' = "idle"
    /\ idx' = 0
    /\ UNCHANGED net
    /\ TestFrame

InitTest ==
    /\ cfgKind = "missing"
    /\ cfgDoc = EmptyDoc
    /\ envGT \in {"", "tokE"}
    /\ envPAT = ""
    /\ dotEnv = NoDotEnv
    /\ profile = <<>>
    /\ profileMode = "ok"
    /\ cfgHist = <<>>
    /\ procs = {}
    /\ nextPid = 1
    /\ broken = {}
    /\ pidFile = [exists |-> FALSE, pids |-> <<>>]
    /\ logFiles = [exists |-> FALSE, files |-> EmptyMap]
    /\ backups = <<>>
    \* what 127.0.0.1:<port> does with a connection request: accept it,
    \* refuse it, or not answer
    /\ \E f \in [{9222, 3000, 3001, 3002} -> {"open", "refused", "silent"}] :
          net = [NoNet EXCEPT !.ports = f]
    /\ repo = NoRepo
    /\ writing = NoWrite
    /\ pc = "idle"
    /\ idx = 0
    /\ run = NoRun
    /\ hist = <<>>

NextTest ==
    \/ TestStart
    \/ TestExec
    \/ ProbeStart
    \/ SocketConnect
    \/ SocketError
    \/ TimerFire
    \/ ProbeSettled
    \/ TestSummary

\* the script's own steps run, and the event loop runs a due timer; when a
\* peer answers is up to the peer
SpecTest ==
    /\ InitTest
    /\ [][NextTest]_vars
    /\ WF_vars(TestExec)
    /\ WF_vars(ProbeStart)
    /\ WF_vars(TimerFire)
    /\ WF_vars(ProbeSettled)
    /\ WF_vars(TestSummary)

----------------------------------------------------------------------------
(* Properties of the health test script (SpecTest) *)

----------------------------------------------------------------------------
(* The AI Automation Agent: detect the repository, offer a screenshot,      *)
(* commit the uncommitted changes and push them                             *)

\* commitChanges(repoDir, message): what it returns ("true", "false", or
\* "undefined" when it ends without a return statement), the repository
\* after it, and whether it left a readline question unanswered.  With the
\* default message the commit and `return true` are inside the callback of
\* rl.question, so the function itself registers the question and ends.
commitChanges(rp, confirmCommit, message) ==
    IF ~rp.dirty \/ ~confirmCommit
    THEN [repo |-> rp, ret |-> "false", question |-> FALSE]
    ELSE LET added == [rp EXCEPT !.staged = TRUE]
         IN IF message = "AI-automated changes"
            THEN [repo |-> added, ret |-> "undefined", question |-> TRUE]
            ELSE [repo |-> [added EXCEPT !.commits = @ + 1, !.dirty = FALSE,
                                         !.staged = FALSE],
                  ret |-> "true", question |-> FALSE]

\* pushChanges(repoDir, branch): `git push origin <branch>` when the remote
\* origin exists and the user confirms
pushChanges(rp, confirmPush) ==
    IF rp.hasRemote /\ confirmPush THEN [rp EXCEPT !.pushed = rp.commits] ELSE rp

\* "AI Automation Complete" and rl.close(): a question still waiting for
\* its answer is dropped with the interface
AgentEnd(r) ==
    /\ hist' = Append(hist, [r EXCEPT !.after = repo'])
    /\ run' = NoRun
    /\ pc' = "idle"

AgentFrame ==
    UNCHANGED <<cfgKind, cfgDoc, envGT, envPAT, dotEnv, profile, profileMode, cfgHist,
                procs, nextPid, broken, pidFile, logFiles, backups, net, writing, idx>>

\* main up to the first prompt
AgentStart ==
    /\ pc = "idle"
    /\ Len(hist) < MaxRuns
    /\ LET r == [script |-> "agent", before |-> repo, after |-> repo,
                 prompted |-> FALSE, screenshot |-> FALSE, confirmCommit |-> FALSE,
                 confirmPush |-> FALSE, committed |-> "none", question |-> FALSE,
                 pushCalled |-> FALSE]
       IN IF repo.inRepo /\ repo.hasBranch /\ repo.dirty
          THEN /\ run' = [r EXCEPT !.prompted = TRUE]
               /\ pc' = "agent_screenshot"
               /\ UNCHANGED <<repo, hist>>
          ELSE /\ UNCHANGED repo
               /\ AgentEnd(r)
    /\ AgentFrame

\* the answer to "Take screenshot of UI changes?"; commitChanges then lists
\* the changes and asks "Commit these changes?"
AgentScreenshot ==
    /\ pc = "agent_screenshot"
    /\ \E answer \in BOOLEAN : run' = [run EXCEPT !.screenshot = answer]
    /\ pc' = "agent_commit"
    /\ UNCHANGED <<repo, hist>>
    /\ AgentFrame

\* the answer to "Commit these changes?" and all that main does after it;
\* confirmPush is the answer the user has ready for "Push changes to ..?"
AgentCommit ==
    /\ pc = "agent_commit"
    /\ \E confirmCommit, confirmPush \in BOOLEAN :
          LET c == commitChanges(repo, confirmCommit, "AI-automated changes")
              push == c.ret = "true"
          IN /\ repo' = IF push THEN pushChanges(c.repo, confirmPush) ELSE c.repo
             /\ AgentEnd([run EXCEPT !.confirmCommit = confirmCommit,
                                     !.confirmPush = confirmPush,
                                     !.committed = c.ret,
                                     !.question = c.question,
                                     !.pushCalled = push])
    /\ AgentFrame

\* the user changes files of the working tree between two runs
WorkOnFiles ==
    /\ pc = "idle"
    /\ repo.inRepo
    /\ ~repo.dirty
    /\ repo' = [repo EXCEPT !.dirty = TRUE]
    /\ UNCHANGED <<pc, run, hist>>
    /\ AgentFrame

InitAgent ==
    /\ cfgKind = "missing"
    /\ cfgDoc = EmptyDoc
    /\ envGT = ""
    /\ envPAT = ""
    /\ dotEnv = NoDotEnv
    /\ profile = <<>>
    /\ profileMode = "ok"
    /\ cfgHist = <<>>
    /\ procs = {}
    /\ nextPid = 1
    /\ broken = {}
    /\ pidFile = [exists |-> FALSE, pids |-> <<>>]
    /\ logFiles = [exists |-> FALSE, files |-> EmptyMap]
    /\ backups = <<>>
    /\ net = NoNet
    /\ \E inRepo, hasBranch, hasRemote, dirty \in BOOLEAN :
          repo = [NoRepo EXCEPT !.inRepo = inRepo,
                                !.hasBranch = inRepo /\ hasBranch,
                                !.hasRemote = inRepo /\ hasRemote,
                                !.dirty = inRepo /\ dirty]
    /\ writing = NoWrite
    /\ pc = "idle"
    /\ idx = 0
    /\ run = NoRun
    /\ hist = <<>>

NextAgent ==
    \/ AgentStart
    \/ AgentScreenshot
    \/ AgentCommit
    \/ WorkOnFiles

SpecAgent == InitAgent /\ [][NextAgent]_vars

----------------------------------------------------------------------------
(* Properties of the AI Automation Agent (SpecAgent) *)

\* C23: when the agent ran in a repository with uncommitted changes and the
\* user confirmed the commit and the push, the changes are committed and
\* then pushed to the current branch, and no push is attempted before the
\* commit was made.
C23_CommitThenPush ==
    \A i \in 1..Len(hist) :
       LET r == hist[i]
       IN /\ (/\ r.script = "agent"
              /\ r.before.inRepo /\ r.before.hasBranch /\ r.before.hasRemote
              /\ r.before.dirty
              /\ r.confirmCommit /\ r.confirmPush)
             => /\ r.after.commits = r.before.commits + 1
                /\ r.after.pushed = r.after.commits
                /\ ~r.after.dirty
          /\ (r.script = "agent" /\ r.pushCalled) => r.committed = "true"

----------------------------------------------------------------------------
(* The write of mcp.json seen from outside: writeFileSync opens the file    *)
(* with truncation, writes the text and closes it, while other processes    *)
(* read the file                                                            *)

WriteFrame ==
    UNCHANGED <<envGT, envPAT, dotEnv, profile, profileMode,
                procs, nextPid, broken, pidFile, logFiles, backups, net, repo,
                idx, run, hist>>

\* fs.writeFileSync(mcpConfigPath, ..) of cursor-mcp-init begins: the file
\* is opened and cut to length 0, the new text is still to be written
WriteOpen ==
    /\ pc = "idle"
    /\ Len(cfgHist) < MaxCfgRuns
    /\ \E ws \in Workspaces :
          writing' = [open |-> TRUE, doc |-> InitConfigDoc(cfgKind, cfgDoc, Glob(ws)),
                      kindBefore |-> cfgKind, before |-> cfgDoc]
    /\ cfgKind' = "partial"
    /\ cfgDoc' = EmptyDoc
    /\ pc' = "writing"
    /\ UNCHANGED cfgHist
    /\ WriteFrame

\* the text is written and the file closed
WriteClose ==
    /\ pc = "writing"
    /\ cfgKind' = "json"
    /\ cfgDoc' = writing.doc
    /\ cfgHist' = Append(cfgHist, [script |-> "writer", kind |-> "json",
                                   kindBefore |-> writing.kindBefore,
                                   before |-> writing.before, after |-> writing.doc,
                                   crashed |-> FALSE, warned |-> FALSE])
    /\ writing' = NoWrite
    /\ pc' = "idle"
    /\ WriteFrame

\* the writing process is killed, or the machine goes down, before the text
\* is written
WriteCrash ==
    /\ pc = "writing"
    /\ cfgHist' = Append(cfgHist, [script |-> "writer", kind |-> cfgKind,
                                   kindBefore |-> writing.kindBefore,
                                   before |-> writing.before, after |-> cfgDoc,
                                   crashed |-> TRUE, warned |-> FALSE])
    /\ writing' = NoWrite
    /\ pc' = "idle"
    /\ UNCHANGED <<cfgKind, cfgDoc>>
    /\ WriteFrame

\* another process loads the config file (the load of any of the scripts)
ReadConfig ==
    /\ Len(cfgHist) < MaxCfgRuns
    /\ cfgHist' = Append(cfgHist, [script |-> "reader", kind |-> cfgKind,
                                   kindBefore |-> cfgKind,
                                   before |-> cfgDoc,
                                   after |-> LoadConfig(cfgKind, cfgDoc).doc,
                                   crashed |-> FALSE,
                                   warned |-> LoadConfig(cfgKind, cfgDoc).warned])
    /\ UNCHANGED <<cfgKind, cfgDoc, writing, pc>>
    /\ WriteFrame

NextWrite ==
    \/ WriteOpen
    \/ WriteClose
    \/ WriteCrash
    \/ ReadConfig

SpecWrite == InitCfg /\ [][NextWrite]_vars

\* C25: a process that reads the config file while it is being written, or
\* after a write was cut short by a crash, finds the complete old document
\* or the complete new one, never a partly written file.
C25_ReaderNeverSeesPartialWrite ==
    \A i \in 1..Len(cfgHist) :
       cfgHist[i].script = "reader" => cfgHist[i].kind # "partial"

====
